---------------------------- MODULE Spec2Model ----------------------------
(***************************************************************************)
(* Model of src/main_end2.py: the cutting calculation (panel packer and    *)
(* its driver loop), the shortage reconciliation, the resolution of a      *)
(* shortage from stock remainder, the supply request creation and the      *)
(* order status writes.                                                     *)
(*                                                                         *)
(* The MySQL tables are sequences of rows, a row's id being its index.     *)
(* Widths and lengths are floats in the source; the model uses integers.   *)
(* Multi-row SELECTs without ORDER BY are taken in ascending id order,     *)
(* except the row that supplies a material's panel size in                  *)
(* calculate_cutting, which is chosen nondeterministically.                 *)
(***************************************************************************)
EXTENDS Integers, Sequences, FiniteSets, TLC

VARIABLES
    order_request,      \* order id -> status                (table order_request)
    supply_composition, \* sequence of stock batches         (table supply_composition)
    product_materials,  \* sequence of assignments           (table product_materials)
    order_composition,  \* sequence of order lines           (table order_composition)
    supply,             \* number of intake records          (table supply)
    buttons,            \* orders that got a button in load_orders
    current_order,      \* Main.current_order (0 = None)
    fabric_shortage,    \* Main.fabric_shortage   (dict as sequence of entries)
    hardware_shortage,  \* Main.hardware_shortage (dict as sequence of entries)
    shortage_data,      \* Main.shortage_data     (dict as sequence of entries)
    hardware_read,      \* history: the store hardware_shortage was computed from
    last,               \* history: what the last handler did
    previous_pass,      \* history: the last calculation pass that produced a map
    failures,           \* history: the statements that have failed so far
    drv                 \* the driver loop of calculate_cutting, run step by step

vars == <<order_request, supply_composition, product_materials, order_composition,
          supply, buttons, current_order, fabric_shortage, hardware_shortage,
          shortage_data, hardware_read, last, previous_pass, failures, drv>>

(***************************************************************************)
(* Bounds                                                                  *)
(***************************************************************************)
MaxDim == 2        \* piece and panel sides of the packer inputs: 0..MaxDim
MaxPieces == 2     \* requested quantity of one piece type in a packer input
MaxDemand == 3     \* quantity of an order line in the initial store
MaxAssigned == 2   \* quantity of an assignment in the initial store
MaxRem == 1        \* remainder and quantity of a batch in the initial store
MaxBatches == 5    \* rows of supply_composition; caps the supply requests
MaxFailures == 1   \* statements that fail in one run of the program

(***************************************************************************)
(* Small helpers                                                           *)
(***************************************************************************)
Min(a, b) == IF a <= b THEN a ELSE b

RECURSIVE SumSeq(_)
SumSeq(s) == IF s = <<>> THEN 0 ELSE Head(s) + SumSeq(Tail(s))

Range(s) == {s[i] : i \in 1..Len(s)}

(***************************************************************************)
(* Panel packer: Main.pack_single_fabric                                   *)
(***************************************************************************)
\* sorted(temp_items, key=lambda x: (-x['width'], -x['height'])): stable,
\* widest first, then tallest first.
SortsBefore(a, b) ==
    \/ a.width > b.width
    \/ a.width = b.width /\ a.height > b.height

RECURSIVE InsertSorted(_, _)
InsertSorted(item, sorted) ==
    IF sorted = <<>> THEN <<item>>
    ELSE IF SortsBefore(item, Head(sorted))
         THEN <<item>> \o sorted
         ELSE <<Head(sorted)>> \o InsertSorted(item, Tail(sorted))

\* h precedes every element of sorted in the input, so it goes in front of
\* the first element that does not sort strictly before it
RECURSIVE SortItems(_)
SortItems(items) ==
    IF items = <<>> THEN <<>>
    ELSE InsertSorted(Head(items), SortItems(Tail(items)))

\* item_width, item_height of one item under a rotation (lines 384-385)
item_width(item, rotation) == IF ~rotation THEN item.width ELSE item.height
item_height(item, rotation) == IF ~rotation THEN item.height ELSE item.width

\* mutant: capacity by area instead of columns x rows
max_count_by_area(fabric_width, fabric_height, item, rotation) ==
    (fabric_width * fabric_height)
        \div (item_width(item, rotation) * item_height(item, rotation))

\* max_x * max_y (lines 386-388); // is floor division, the operands are >= 0
max_count(fabric_width, fabric_height, item, rotation) ==
    (fabric_width \div item_width(item, rotation))
        * (fabric_height \div item_height(item, rotation))

\* mutant: the capacity, not capped by the requested quantity
possible_count_uncapped(fabric_width, fabric_height, item, rotation) ==
    max_count(fabric_width, fabric_height, item, rotation)

\* possible_count (line 389)
possible_count(fabric_width, fabric_height, item, rotation) ==
    Min(max_count(fabric_width, fabric_height, item, rotation), item.quantity)

\* the placement appended for one item (lines 391-398)
Placement(fabric_width, fabric_height, item, rotation) ==
    [x |-> 0, y |-> 0,
     width |-> item_width(item, rotation),
     height |-> item_height(item, rotation),
     count |-> possible_count(fabric_width, fabric_height, item, rotation),
     name |-> item.name]

\* the loop over the sorted items for one rotation (lines 383-403)
RECURSIVE PlaceItems(_, _, _, _)
PlaceItems(fabric_width, fabric_height, sorted, rotation) ==
    IF sorted = <<>> THEN <<>>
    ELSE LET item == Head(sorted)
             rest == PlaceItems(fabric_width, fabric_height, Tail(sorted), rotation)
         IN  IF possible_count(fabric_width, fabric_height, item, rotation) > 0
             THEN <<Placement(fabric_width, fabric_height, item, rotation)>> \o rest
             ELSE rest

\* total_area (line 410)
RECURSIVE total_area(_)
total_area(placements) ==
    IF placements = <<>> THEN 0
    ELSE Head(placements).width * Head(placements).height * Head(placements).count
         + total_area(Tail(placements))

\* used mirrors placements (lines 399-402)
UsedOf(placements) ==
    [i \in 1..Len(placements) |->
        [name |-> placements[i].name, count |-> placements[i].count]]

\* one pass of the rotation loop (lines 379-411)
RotationResult(fabric_width, fabric_height, items, rotation) ==
    LET temp_items == SelectSeq(items, LAMBDA it : it.quantity > 0)
        placements == PlaceItems(fabric_width, fabric_height,
                                 SortItems(temp_items), rotation)
    IN  [placements |-> placements, used |-> UsedOf(placements),
         area |-> total_area(placements)]

\* mutant: an equal area replaces too
KeepBestOrEqual(best_result, candidate) ==
    IF candidate.area >= best_result.area THEN candidate ELSE best_result

\* best_result update (lines 412-417): strictly larger area replaces
KeepBest(best_result, candidate) ==
    IF candidate.area > best_result.area THEN candidate ELSE best_result

\* ZeroDivisionError of // (lines 386-387): a side of 0 on an item with quantity > 0
PackRaises(items) ==
    \E i \in 1..Len(items) :
        items[i].quantity > 0 /\ (items[i].width = 0 \/ items[i].height = 0)

\* Main.pack_single_fabric: returns (placements, used)
pack_single_fabric(fabric_width, fabric_height, items) ==
    LET best0 == [placements |-> <<>>, used |-> <<>>, area |-> 0]
        best1 == KeepBest(best0, RotationResult(fabric_width, fabric_height, items, FALSE))
        best2 == KeepBest(best1, RotationResult(fabric_width, fabric_height, items, TRUE))
    IN  [placements |-> best2.placements, used |-> best2.used]

(***************************************************************************)
(* Driver loop of calculate_cutting (lines 316-340)                        *)
(***************************************************************************)
\* the inner "for item in items_copy" for one used entry (lines 326-335)
RECURSIVE ConsumeByName(_, _, _)
ConsumeByName(items_copy, name, remaining) ==
    IF items_copy = <<>> THEN <<>>
    ELSE LET item == Head(items_copy)
         IN  IF item.name = name /\ item.quantity > 0
             THEN IF item.quantity >= remaining
                  THEN <<[item EXCEPT !.quantity = item.quantity - remaining]>>
                       \o Tail(items_copy)
                  ELSE <<[item EXCEPT !.quantity = 0]>>
                       \o ConsumeByName(Tail(items_copy), name,
                                        remaining - item.quantity)
             ELSE <<item>> \o ConsumeByName(Tail(items_copy), name, remaining)

\* mutant: the placed counts are not merged back into items_copy
ApplyUsedNothing(items_copy, used) == items_copy

\* "for u in used" (lines 325-335)
RECURSIVE ApplyUsed(_, _)
ApplyUsed(items_copy, used) ==
    IF used = <<>> THEN items_copy
    ELSE ApplyUsed(ConsumeByName(items_copy, Head(used).name, Head(used).count),
                   Tail(used))

\* the loop condition (line 319)
AnyLeft(items_copy) == \E i \in 1..Len(items_copy) : items_copy[i].quantity > 0

\* valid_items (line 320)
valid_items(items_copy) == SelectSeq(items_copy, LAMBDA it : it.quantity > 0)

\* the whole while loop: the final fabric_required, or "raise" on ZeroDivisionError
RECURSIVE DriverLoop(_, _, _, _)
DriverLoop(fabric_width, fabric_height, items_copy, fabric_required) ==
    IF ~AnyLeft(items_copy)
    THEN [raise |-> FALSE, required |-> fabric_required, items |-> items_copy]
    ELSE IF PackRaises(valid_items(items_copy))
    THEN [raise |-> TRUE, required |-> fabric_required, items |-> items_copy]
    ELSE LET res == pack_single_fabric(fabric_width, fabric_height,
                                       valid_items(items_copy))
         IN  IF res.placements /= <<>>
             THEN DriverLoop(fabric_width, fabric_height,
                             ApplyUsed(items_copy, res.used), fabric_required + 1)
             ELSE [raise |-> FALSE, required |-> fabric_required, items |-> items_copy]

(***************************************************************************)
(* The store: tables and the SELECTs of the source                         *)
(***************************************************************************)
NULL == -1     \* SQL NULL in a numeric column

\* table material_type; material_type_id = 2 is the hardware type
material_type == <<[name |-> "Fabric"], [name |-> "Hardware"]>>

\* table material (never written by the program)
material == <<[name |-> "Canvas", material_type_id |-> 1],
              [name |-> "Zipper", material_type_id |-> 2]>>

MaterialIds == 1..Len(material)
MaterialNames == {material[m].name : m \in MaterialIds}

\* m.material_type_id != 2 (lines 178, 269, 292)
IsFabric(m) == material[m].material_type_id /= 2
\* mt.name = 'Фурнитура' (lines 223, 232)
IsHardware(m) == material_type[material[m].material_type_id].name = "Hardware"

\* no write of the handler fails
NeverFails == -1

\* a database state threaded through the statements of one handler;
\* log is the sequence of writes committed so far; the write issued after
\* fail_at committed ones raises, and raised says that it has
Db(status, sc, pm, sup) ==
    [status |-> status, sc |-> sc, pm |-> pm, supply |-> sup, log |-> <<>>,
     fail_at |-> NeverFails, raised |-> FALSE]

\* ids 1..n that satisfy P, ascending
IdsWhere(n, P(_)) == SelectSeq([i \in 1..n |-> i], P)

RECURSIVE Flatten(_)
Flatten(ss) == IF ss = <<>> THEN <<>> ELSE Head(ss) \o Flatten(Tail(ss))

PmOrder(db, p) == order_composition[db.pm[p].order_composition_id].order_id
PmMaterial(db, p) == db.sc[db.pm[p].supply_composition_id].material_id

\* rows of fabric_query (lines 172-180, 263-271): assignments of the order
\* on fabric materials
fabric_data(db, order) ==
    IdsWhere(Len(db.pm), LAMBDA p : PmOrder(db, p) = order /\ IsFabric(PmMaterial(db, p)))

\* rows of order_query in calculate_cutting (lines 285-294): one row per
\* (order line, fabric assignment of that line), by line then assignment
order_items(db, order) ==
    Flatten([oc \in 1..Len(order_composition) |->
        IF order_composition[oc].order_id /= order THEN <<>>
        ELSE LET ps == IdsWhere(Len(db.pm), LAMBDA p :
                           db.pm[p].order_composition_id = oc
                           /\ IsFabric(PmMaterial(db, p)))
             IN  [k \in 1..Len(ps) |->
                    [name |-> order_composition[oc].name,
                     width |-> order_composition[oc].width,
                     height |-> order_composition[oc].length,
                     quantity |-> order_composition[oc].quantity,
                     material_name |-> material[PmMaterial(db, ps[k])].name]]])

\* SUM(pm.quantity) of the order's assignments on materials named name
\* (assigned_query lines 343-351, required_query lines 216-226)
SumAssigned(db, order, name) ==
    LET ps == IdsWhere(Len(db.pm), LAMBDA p :
                  PmOrder(db, p) = order /\ material[PmMaterial(db, p)].name = name)
    IN  SumSeq([k \in 1..Len(ps) |-> db.pm[ps[k]].quantity])

\* batches of the materials named name, ascending id
BatchesOf(db, name) ==
    IdsWhere(Len(db.sc), LAMBDA b : material[db.sc[b].material_id].name = name)

\* SUM(remainder) (lines 472-476); no row gives NULL, read as 0
total_remainder(db, name) ==
    LET bs == BatchesOf(db, name)
    IN  SumSeq([k \in 1..Len(bs) |-> db.sc[bs[k]].remainder])

\* SELECT id FROM order_composition WHERE order_id = %s LIMIT 1 (lines 504-507, 557-560)
FirstOc(order) ==
    IdsWhere(Len(order_composition), LAMBDA oc : order_composition[oc].order_id = order)

\* SELECT pm.id ... WHERE oc.order_id = %s AND m.name = %s LIMIT 1 (lines 493-496)
oc_res(db, order, name) ==
    IdsWhere(Len(db.pm), LAMBDA p :
        PmOrder(db, p) = order /\ material[PmMaterial(db, p)].name = name)

(***************************************************************************)
(* Python dicts keep insertion order: a sequence of entries                *)
(***************************************************************************)
Entry(name, n) == [material |-> name, shortage |-> n]

Keys(d) == {d[i].material : i \in 1..Len(d)}

\* d[name] = n
DictSet(d, name, n) ==
    IF name \in Keys(d)
    THEN [i \in 1..Len(d) |-> IF d[i].material = name THEN Entry(name, n) ELSE d[i]]
    ELSE Append(d, Entry(name, n))

RECURSIVE DictUpdatePositive(_, _)
\* "for material, shortage in src.items(): if shortage > 0: d[material] = shortage"
DictUpdatePositive(d, src) ==
    IF src = <<>> THEN d
    ELSE DictUpdatePositive(
            IF Head(src).shortage > 0
            THEN DictSet(d, Head(src).material, Head(src).shortage) ELSE d,
            Tail(src))

(***************************************************************************)
(* Writes: DatabaseManager.execute_query / execute_insert, autocommitted   *)
(***************************************************************************)
Write(op, id, amount, oc, sc, status) ==
    [op |-> op, id |-> id, amount |-> amount, oc |-> oc, sc |-> sc, status |-> status]

\* one statement through execute_query / execute_insert (lines 43-70): it is
\* committed on its own (lines 51, 63); when it fails, rollback() has nothing
\* but the failed statement to undo and the exception is raised again (lines
\* 53-56, 67-70), so no later statement of the handler is issued
Issue(db, after) ==
    IF db.raised THEN db
    ELSE IF Len(db.log) = db.fail_at THEN [db EXCEPT !.raised = TRUE]
    ELSE after

\* mutant: SET quantity = %s, overwriting what was assigned
UpdateQuantityOverwrite(db, pm_id, transfer_amount) ==
    Issue(db,
        [db EXCEPT !.pm[pm_id].quantity = transfer_amount,
                   !.log = Append(@, Write("UPDATE product_materials", pm_id,
                                           transfer_amount, 0, 0, ""))])

\* UPDATE product_materials SET quantity = quantity + %s WHERE id = %s (lines 499-502)
UpdateQuantity(db, pm_id, transfer_amount) ==
    Issue(db,
        [db EXCEPT !.pm[pm_id].quantity = @ + transfer_amount,
                   !.log = Append(@, Write("UPDATE product_materials", pm_id,
                                           transfer_amount, 0, 0, ""))])

\* INSERT INTO product_materials (...) (lines 510-513, 563-566)
InsertAssignment(db, oc_id, sc_id, quantity) ==
    Issue(db,
        [db EXCEPT !.pm = Append(@, [order_composition_id |-> oc_id,
                                     supply_composition_id |-> sc_id,
                                     quantity |-> quantity]),
                   !.log = Append(@, Write("INSERT product_materials", Len(db.pm) + 1,
                                           quantity, oc_id, sc_id, ""))])

\* UPDATE supply_composition SET remainder = remainder - %s WHERE id = %s (line 514)
UpdateRemainder(db, sc_id, transfer_amount) ==
    Issue(db,
        [db EXCEPT !.sc[sc_id].remainder = @ - transfer_amount,
                   !.log = Append(@, Write("UPDATE supply_composition", sc_id,
                                           transfer_amount, 0, sc_id, ""))])

\* an order id without a row in order_request
NoRow == "NoRow"

\* UPDATE order_request SET status = %s WHERE id = %s (lines 462, 516, 567):
\* the statement succeeds and changes nothing when no row has that id
UpdateStatus(db, order, status) ==
    Issue(db,
        [db EXCEPT !.status[order] = IF @ = NoRow THEN NoRow ELSE status,
                   !.log = Append(@, Write("UPDATE order_request", order, 0, 0, 0, status))])

\* INSERT INTO supply (...) (lines 549-552)
InsertSupply(db) ==
    Issue(db,
        [db EXCEPT !.supply = @ + 1,
                   !.log = Append(@, Write("INSERT supply", db.supply + 1, 0, 0, 0, ""))])

\* INSERT INTO supply_composition (...) (lines 553-556): no size, remainder 0
InsertBatch(db, material_id, shortage) ==
    Issue(db,
        [db EXCEPT !.sc = Append(@, [material_id |-> material_id, quantity |-> shortage,
                                     width |-> NULL, length |-> NULL,
                                     status |-> "AwaitingConfirmation", remainder |-> 0]),
                   !.log = Append(@, Write("INSERT supply_composition", Len(db.sc) + 1,
                                           shortage, 0, 0, "AwaitingConfirmation"))])

(***************************************************************************)
(* Main.show_order_info: the hardware part (lines 216-250)                 *)
(***************************************************************************)
\* float(fabric['width']) / float(fabric['length']) on a NULL column raises
\* TypeError (lines 182-191): every row has its own supply_composition_id key
ShowRaises(db, order) ==
    \E k \in 1..Len(fabric_data(db, order)) :
        LET b == db.sc[db.pm[fabric_data(db, order)[k]].supply_composition_id]
        IN  b.width = NULL \/ b.length = NULL

\* SUM(pm.quantity) of the order on the hardware materials named name
HardwareRequired(db, order, name) ==
    LET ps == IdsWhere(Len(db.pm), LAMBDA p :
                  PmOrder(db, p) = order /\ IsHardware(PmMaterial(db, p))
                  /\ material[PmMaterial(db, p)].name = name)
    IN  SumSeq([k \in 1..Len(ps) |-> db.pm[ps[k]].quantity])

\* SUM(sc.quantity) over the hardware batches named name; 0 when there is none
HardwareAvailable(db, name) ==
    LET bs == IdsWhere(Len(db.sc), LAMBDA b :
                  IsHardware(db.sc[b].material_id)
                  /\ material[db.sc[b].material_id].name = name)
    IN  SumSeq([k \in 1..Len(bs) |-> db.sc[bs[k]].quantity])

\* the names of required_data: hardware materials the order has a row for
required_data(db, order) ==
    LET ms == IdsWhere(Len(material), LAMBDA m :
                  IsHardware(m) /\ \E p \in 1..Len(db.pm) :
                      PmOrder(db, p) = order /\ PmMaterial(db, p) = m)
    IN  [k \in 1..Len(ms) |-> material[ms[k]].name]

RECURSIVE HardwareShortageRequired(_, _, _)
\* mutant: the entry is the required quantity, not the difference
HardwareShortageRequired(db, order, names) ==
    IF names = <<>> THEN <<>>
    ELSE LET hardware_name == Head(names)
             required_qty == HardwareRequired(db, order, hardware_name)
             available_qty == HardwareAvailable(db, hardware_name)
             rest == HardwareShortageRequired(db, order, Tail(names))
         IN  IF required_qty > available_qty
             THEN <<Entry(hardware_name, required_qty)>> \o rest
             ELSE rest

\* the loop of lines 237-250
RECURSIVE HardwareShortage(_, _, _)
HardwareShortage(db, order, names) ==
    IF names = <<>> THEN <<>>
    ELSE LET hardware_name == Head(names)
             required_qty == HardwareRequired(db, order, hardware_name)
             available_qty == HardwareAvailable(db, hardware_name)
             rest == HardwareShortage(db, order, Tail(names))
         IN  IF required_qty > available_qty
             THEN <<Entry(hardware_name, required_qty - available_qty)>> \o rest
             ELSE rest

(***************************************************************************)
(* Main.calculate_cutting: demand, panels, fabric shortage (lines 263-360) *)
(***************************************************************************)
RECURSIVE NamesInOrder(_, _)
\* keys of items_by_material in insertion order
NamesInOrder(items, seen) ==
    IF items = <<>> THEN <<>>
    ELSE IF Head(items).material_name \in seen
         THEN NamesInOrder(Tail(items), seen)
         ELSE <<Head(items).material_name>>
              \o NamesInOrder(Tail(items), seen \cup {Head(items).material_name})

\* items_by_material[mat_name] (lines 296-305)
items_by_material(items, mat_name) ==
    LET sel == SelectSeq(items, LAMBDA it : it.material_name = mat_name)
    IN  [k \in 1..Len(sel) |->
            [name |-> sel[k].name, width |-> sel[k].width,
             height |-> sel[k].height, quantity |-> sel[k].quantity]]

\* the rows that can come first for a material in fabric_data: SQL fixes no order
FirstRows(db, order, mat_name) ==
    {p \in Range(fabric_data(db, order)) : material[PmMaterial(db, p)].name = mat_name}

FabricNames(db, order) == NamesInOrder(order_items(db, order), {})

\* the choices of one first row per fabric material
FirstRowChoices(db, order) ==
    {f \in [Range(FabricNames(db, order)) -> 1..Len(db.pm)] :
        \A n \in DOMAIN f : f[n] \in FirstRows(db, order, n)}

\* float(None) when the first row of a material has no size (lines 279-280)
CalcRaises(db, order, first) ==
    \E n \in DOMAIN first :
        LET b == db.sc[db.pm[first[n]].supply_composition_id]
        IN  b.width = NULL \/ b.length = NULL

\* total_fabric_required (lines 308-340), as entries material -> driver result;
\* unmet is what items_copy still holds when the loop is left
total_fabric_required(db, order, first) ==
    LET names == FabricNames(db, order)
    IN  [k \in 1..Len(names) |->
            LET b == db.sc[db.pm[first[names[k]]].supply_composition_id]
                r == DriverLoop(b.width, b.length,
                                items_by_material(order_items(db, order), names[k]), 0)
            IN  [material |-> names[k], raise |-> r.raise, required |-> r.required,
                 unmet |-> SumSeq([i \in 1..Len(r.items) |-> r.items[i].quantity])]]

\* self.fabric_shortage (lines 355-359)
RECURSIVE FabricShortage(_, _, _)
FabricShortage(db, order, tfr) ==
    IF tfr = <<>> THEN <<>>
    ELSE LET assigned == SumAssigned(db, order, Head(tfr).material)
             rest == FabricShortage(db, order, Tail(tfr))
         IN  IF assigned < Head(tfr).required
             THEN <<Entry(Head(tfr).material, Head(tfr).required - assigned)>> \o rest
             ELSE rest

(***************************************************************************)
(* Main.check_and_prompt_supply_request (lines 453-534)                    *)
(***************************************************************************)
\* self.shortage_data = fabric entries, then hardware entries (lines 453-459)
MergeShortage(fs, hs) == DictUpdatePositive(DictUpdatePositive(<<>>, fs), hs)

\* mutant: one material with enough remainder is enough
all_available_any(db, sd) ==
    \E i \in 1..Len(sd) : ~(total_remainder(db, sd[i].material) < sd[i].shortage)

\* all_available (lines 470-479)
all_available(db, sd) ==
    \A i \in 1..Len(sd) : ~(total_remainder(db, sd[i].material) < sd[i].shortage)

\* mutant: ORDER BY sc.id DESC
rows_descending(db, name) ==
    LET bs == IdsWhere(Len(db.sc), LAMBDA b :
                  material[db.sc[b].material_id].name = name /\ db.sc[b].remainder > 0)
    IN  [k \in 1..Len(bs) |-> [id |-> bs[Len(bs) + 1 - k],
                               remainder |-> db.sc[bs[Len(bs) + 1 - k]].remainder]]

\* rows (lines 483-486): batches with remainder > 0, by id, read once per material
rows(db, name) ==
    LET bs == IdsWhere(Len(db.sc), LAMBDA b :
                  material[db.sc[b].material_id].name = name /\ db.sc[b].remainder > 0)
    IN  [k \in 1..Len(bs) |-> [id |-> bs[k], remainder |-> db.sc[bs[k]].remainder]]

\* mutant: the whole batch is taken
transfer_amount_whole(available, needed) == available

\* mutant: what is needed is taken, whatever the batch holds
transfer_amount_needed(available, needed) == needed

\* transfer_amount (line 491)
transfer_amount(available, needed) == Min(available, needed)

RECURSIVE DrawRowsRemainderFirst(_, _, _, _, _)
\* mutant: the remainder is decremented before the assignment is increased
DrawRowsRemainderFirst(db, rs, needed, order, name) ==
    IF rs = <<>> \/ needed <= 0 THEN [db |-> db, needed |-> needed]
    ELSE LET row == Head(rs)
             amount == transfer_amount(row.remainder, needed)
             found == oc_res(db, order, name)
             db1 == UpdateRemainder(db, row.id, amount)
             db2 == IF found /= <<>>
                    THEN UpdateQuantity(db1, Head(found), amount)
                    ELSE IF FirstOc(order) /= <<>>
                         THEN InsertAssignment(db1, Head(FirstOc(order)), row.id, amount)
                         ELSE db1
         IN  DrawRowsRemainderFirst(db2, Tail(rs), needed - amount, order, name)

\* "for row in rows" (lines 487-515); returns the store and what is still needed
RECURSIVE DrawRows(_, _, _, _, _)
DrawRows(db, rs, needed, order, name) ==
    IF rs = <<>> \/ needed <= 0 THEN [db |-> db, needed |-> needed]
    ELSE LET row == Head(rs)
             amount == transfer_amount(row.remainder, needed)
             found == oc_res(db, order, name)
             db1 == IF found /= <<>>
                    THEN UpdateQuantity(db, Head(found), amount)
                    ELSE IF FirstOc(order) /= <<>>
                         THEN InsertAssignment(db, Head(FirstOc(order)), row.id, amount)
                         ELSE db
             db2 == UpdateRemainder(db1, row.id, amount)
         IN  DrawRows(db2, Tail(rs), needed - amount, order, name)

\* "for material, shortage in self.shortage_data.items()" (lines 481-515);
\* left collects the needed value each material ends with
RECURSIVE DrawAll(_, _, _, _)
DrawAll(db, sd, order, left) ==
    IF sd = <<>> THEN [db |-> db, left |-> left]
    ELSE LET r == DrawRows(db, rows(db, Head(sd).material), Head(sd).shortage,
                           order, Head(sd).material)
         IN  DrawAll(r.db, Tail(sd), order,
                     Append(left, Entry(Head(sd).material, r.needed)))

(***************************************************************************)
(* Main.create_supply_requests (lines 536-575)                             *)
(***************************************************************************)
\* SELECT id FROM material WHERE name = %s (line 545)
mat_res(material_name) ==
    IdsWhere(Len(material), LAMBDA m : material[m].name = material_name)

RECURSIVE RequestAll(_, _, _)
\* the loop of lines 544-566
RequestAll(db, sd, order) ==
    IF sd = <<>> THEN db
    ELSE IF mat_res(Head(sd).material) = <<>> THEN RequestAll(db, Tail(sd), order)
    ELSE LET db1 == InsertSupply(db)
             db2 == InsertBatch(db1, Head(mat_res(Head(sd).material)), Head(sd).shortage)
             sc_id == Len(db2.sc)
             db3 == IF FirstOc(order) /= <<>>
                    THEN InsertAssignment(db2, Head(FirstOc(order)), sc_id, 0)
                    ELSE db2
         IN  RequestAll(db3, Tail(sd), order)

\* mutant: the wrong literal
ReadyStatusWrong == "Cutting"

\* the status literals of lines 462, 516 and 567
ReadyStatus == "ReadyInWorkshop"
CuttingStatus == "Cutting"
OrderedStatus == "MaterialsOrdered"

\* mutant: the status is written before the requests are created
create_supply_requests_status_first(db, sd, order) ==
    RequestAll(UpdateStatus(db, order, OrderedStatus), sd, order)

create_supply_requests(db, sd, order) ==
    UpdateStatus(RequestAll(db, sd, order), order, OrderedStatus)

\* mutant: any button creates the requests
create_clicked_always(click) == TRUE

\* msg_box.clickedButton() == create_btn (line 533)
create_clicked(click) == click = "create"

\* mutant: Cutting is written before the draws
check_and_prompt_status_before_draw(db, fs, hs, order, click) ==
    LET sd == MergeShortage(fs, hs)
    IN  IF sd = <<>>
        THEN [db |-> UpdateStatus(db, order, ReadyStatus), sd |-> sd,
              left |-> <<>>, outcome |-> "ready", dialog |-> "none"]
        ELSE IF all_available(db, sd)
        THEN LET r == DrawAll(UpdateStatus(db, order, CuttingStatus), sd, order, <<>>)
             IN  [db |-> r.db, sd |-> sd,
                  left |-> r.left, outcome |-> "cutting", dialog |-> "none"]
        ELSE IF create_clicked(click)
        THEN [db |-> create_supply_requests(db, sd, order), sd |-> sd,
              left |-> <<>>, outcome |-> "ordered", dialog |-> click]
        ELSE [db |-> db, sd |-> sd, left |-> <<>>, outcome |-> "declined",
              dialog |-> click]

\* the whole of check_and_prompt_supply_request; click is the button the
\* user clicks if the dialog of lines 525-532 is shown
check_and_prompt_supply_request(db, fs, hs, order, click) ==
    LET sd == MergeShortage(fs, hs)
    IN  IF sd = <<>>
        THEN [db |-> UpdateStatus(db, order, ReadyStatus), sd |-> sd,
              left |-> <<>>, outcome |-> "ready", dialog |-> "none"]
        ELSE IF all_available(db, sd)
        THEN LET r == DrawAll(db, sd, order, <<>>)
             IN  [db |-> UpdateStatus(r.db, order, CuttingStatus), sd |-> sd,
                  left |-> r.left, outcome |-> "cutting", dialog |-> "none"]
        ELSE IF create_clicked(click)
        THEN [db |-> create_supply_requests(db, sd, order), sd |-> sd,
              left |-> <<>>, outcome |-> "ordered", dialog |-> click]
        ELSE [db |-> db, sd |-> sd, left |-> <<>>, outcome |-> "declined",
              dialog |-> click]

(***************************************************************************)
(* State machine of the application                                        *)
(***************************************************************************)
Orders == {1, 2, 3}

\* the driver loop is not running
Idle == [pc |-> "idle", fabric_width |-> 0, fabric_height |-> 0, items |-> <<>>,
         items_copy |-> <<>>, fabric_required |-> 0, call |-> <<>>,
         placements |-> <<>>, used |-> <<>>, calls |-> 0, copy_before |-> <<>>]

NoSnapshot == [status |-> <<>>, sc |-> <<>>, pm |-> <<>>, supply |-> 0]

\* no calculation pass has produced a map yet
NoPass == [order |-> 0, pre |-> NoSnapshot, required |-> <<>>, sd |-> <<>>,
           outcome |-> "", post |-> NoSnapshot]

Snapshot == [status |-> order_request, sc |-> supply_composition,
             pm |-> product_materials, supply |-> supply]

\* Main.load_orders (lines 133-166): a button per order that is
\* 'Подтвержден' or 'Раскрой' when the window is built
load_orders(status) == {o \in Orders : status[o] \in {"Confirmed", "Cutting"}}

Batch(material_id, width, length, quantity, remainder) ==
    [material_id |-> material_id, quantity |-> quantity, width |-> width,
     length |-> length, status |-> "InStock", remainder |-> remainder]

Line(order, name, width, length, quantity) ==
    [order_id |-> order, name |-> name, width |-> width, length |-> length,
     quantity |-> quantity]

Assignment(oc_id, sc_id, quantity) ==
    [order_composition_id |-> oc_id, supply_composition_id |-> sc_id,
     quantity |-> quantity]

\* Main.__init__ (lines 104-121)
InitMain ==
    /\ current_order = 0
    /\ fabric_shortage = <<>>
    /\ hardware_shortage = <<>>
    /\ shortage_data = <<>>
    /\ buttons = load_orders(order_request)
    /\ hardware_read = [order |-> 0, sc |-> <<>>, pm |-> <<>>]
    /\ last = [handler |-> "init", order |-> 0, outcome |-> "", pre |-> NoSnapshot,
               log |-> <<>>, left |-> <<>>, required |-> <<>>, dialog |-> "none"]
    /\ previous_pass = NoPass
    /\ failures = 0
    /\ drv = Idle

InitBounded ==
    /\ order_request = [o \in Orders |-> IF o = 1 THEN "Confirmed" ELSE "MaterialsOrdered"]
    /\ \E side \in {1, 3}, q \in {1, MaxDemand} :
          /\ side = 3 => q = 1
          /\ order_composition = <<Line(1, "A", side, side, q), Line(2, "B", 1, 1, 1)>>
    /\ \E r1 \in 0..MaxRem, r2 \in 0..MaxRem, r3 \in 0..MaxRem :
          supply_composition = <<Batch(1, 2, 1, MaxRem, r1), Batch(1, 2, 1, MaxRem, r2),
                                 Batch(2, NULL, NULL, MaxRem, r3)>>
    /\ \E a \in 0..MaxAssigned, z \in 0..MaxAssigned :
          product_materials = <<Assignment(1, 1, a), Assignment(1, 3, z),
                                Assignment(2, 2, 0)>>
    /\ supply = 1

\* the hardware scenario: order 1 requires 40 zippers, 25 are in stock, 20 of them
\* spare; order 2 lacks one panel of canvas and no canvas is spare
InitZipper ==
    /\ order_request = [o \in Orders |-> IF o = 1 THEN "Confirmed"
                                         ELSE IF o = 2 THEN "Cutting"
                                         ELSE "MaterialsOrdered"]
    /\ order_composition = <<Line(1, "A", 1, 1, 2), Line(2, "B", 1, 1, 1)>>
    /\ supply_composition = <<Batch(1, 2, 1, 1, 0), Batch(2, NULL, NULL, 10, 8),
                              Batch(2, NULL, NULL, 15, 12)>>
    /\ product_materials = <<Assignment(1, 1, 1), Assignment(1, 2, 40),
                             Assignment(2, 1, 0)>>
    /\ supply = 1

\* three orders with a button: order 1 lacks one panel of canvas, which is spare,
\* and one zipper, which is not; order 2 has no line; order 3 requires 3 zippers
InitThreeOrders ==
    /\ order_request = [o \in Orders |-> "Confirmed"]
    /\ order_composition = <<Line(1, "A", 1, 1, 1), Line(3, "B", 1, 1, 1)>>
    /\ supply_composition = <<Batch(1, 2, 1, 1, 1), Batch(2, NULL, NULL, 1, 0)>>
    /\ product_materials = <<Assignment(1, 1, 0), Assignment(1, 2, 2),
                             Assignment(2, 2, 3)>>
    /\ supply = 1

Init == (InitBounded \/ InitZipper \/ InitThreeOrders) /\ InitMain

\* Main.show_order_info(order) (lines 168-255): a click on an order's button
show_order_info(order) ==
    LET db == Db(order_request, supply_composition, product_materials, supply)
    IN  /\ order \in buttons
        /\ current_order' = order
        /\ hardware_shortage' =
              IF ShowRaises(db, order) THEN hardware_shortage
              ELSE HardwareShortage(db, order, required_data(db, order))
        /\ hardware_read' =
              IF ShowRaises(db, order) THEN hardware_read
              ELSE [order |-> order, sc |-> supply_composition,
                    pm |-> product_materials]
        /\ last' = [handler |-> "show_order_info", order |-> order,
                    outcome |-> IF ShowRaises(db, order) THEN "error" ELSE "loaded",
                    pre |-> NoSnapshot, log |-> <<>>, left |-> <<>>, required |-> <<>>,
                    dialog |-> "none"]
        /\ UNCHANGED <<order_request, supply_composition, product_materials,
                       order_composition, supply, buttons, fabric_shortage,
                       shortage_data, previous_pass, failures, drv>>

\* Main.calculate_cutting (lines 257-372) with the call of
\* check_and_prompt_supply_request at its end: one calculation pass
calculate_cutting ==
    /\ current_order /= 0
    /\ LET db == Db(order_request, supply_composition, product_materials, supply)
       IN  \E first \in FirstRowChoices(db, current_order),
              click \in {"create", "cancel"} :
           LET raised ==
                   /\ last' = [handler |-> "calculate_cutting", order |-> current_order,
                               outcome |-> "error", pre |-> Snapshot, log |-> <<>>,
                               left |-> <<>>, required |-> <<>>, dialog |-> "none"]
                   /\ UNCHANGED <<order_request, supply_composition, product_materials,
                                  supply, fabric_shortage, shortage_data,
                                  previous_pass>>
           IN  IF CalcRaises(db, current_order, first) THEN raised
               ELSE \E tfr \in {total_fabric_required(db, current_order, first)} :
                    IF \E k \in 1..Len(tfr) : tfr[k].raise THEN raised
                    ELSE \E fs \in {FabricShortage(db, current_order, tfr)} :
                         \E r \in {check_and_prompt_supply_request(
                                       db, fs, hardware_shortage, current_order, click)} :
                        /\ Len(r.db.sc) <= MaxBatches
                        /\ fabric_shortage' = fs
                        /\ shortage_data' = r.sd
                        /\ order_request' = r.db.status
                        /\ supply_composition' = r.db.sc
                        /\ product_materials' = r.db.pm
                        /\ supply' = r.db.supply
                        /\ last' = [handler |-> "calculate_cutting",
                                    order |-> current_order, outcome |-> r.outcome,
                                    pre |-> Snapshot, log |-> r.db.log, left |-> r.left,
                                    required |-> tfr, dialog |-> r.dialog]
                        /\ previous_pass' =
                              [order |-> current_order, pre |-> Snapshot,
                               required |-> tfr, sd |-> r.sd, outcome |-> r.outcome,
                               post |-> [status |-> r.db.status, sc |-> r.db.sc,
                                         pm |-> r.db.pm, supply |-> r.db.supply]]
    /\ UNCHANGED <<order_composition, buttons, current_order, hardware_shortage,
                   hardware_read, failures, drv>>

Next == (\E order \in Orders : show_order_info(order)) \/ calculate_cutting

Spec == Init /\ [][Next]_vars

(***************************************************************************)
(* The store is a database server the program connects to (lines 26-34):   *)
(* another client can delete an order, with its lines, or the lines alone, *)
(* while the window still shows the order's button                         *)
(***************************************************************************)
\* the rows of order o are gone: no row in order_request, no line of the order
\* (a line of order_id 0 belongs to no order, and so do its assignments); the
\* order deleted is the one the user has selected
order_deleted(o) ==
    /\ o = current_order
    /\ order_request[o] /= NoRow
    /\ order_request' = [order_request EXCEPT ![o] = NoRow]
    /\ order_composition' =
          [oc \in 1..Len(order_composition) |->
              IF order_composition[oc].order_id = o
              THEN [order_composition[oc] EXCEPT !.order_id = 0]
              ELSE order_composition[oc]]
    /\ last' = [handler |-> "order_deleted", order |-> o, outcome |-> "",
                pre |-> NoSnapshot, log |-> <<>>, left |-> <<>>, required |-> <<>>,
                dialog |-> "none"]
    /\ UNCHANGED <<supply_composition, product_materials, supply, buttons,
                   current_order, fabric_shortage, hardware_shortage, shortage_data,
                   hardware_read, previous_pass, failures, drv>>

\* another client removes the lines of the selected order and keeps the order:
\* order_request is untouched, the order has no row in order_composition
lines_deleted(o) ==
    /\ o = current_order
    /\ order_request[o] /= NoRow
    /\ \E oc \in 1..Len(order_composition) : order_composition[oc].order_id = o
    /\ order_composition' =
          [oc \in 1..Len(order_composition) |->
              IF order_composition[oc].order_id = o
              THEN [order_composition[oc] EXCEPT !.order_id = 0]
              ELSE order_composition[oc]]
    /\ last' = [handler |-> "lines_deleted", order |-> o, outcome |-> "",
                pre |-> NoSnapshot, log |-> <<>>, left |-> <<>>, required |-> <<>>,
                dialog |-> "none"]
    /\ UNCHANGED <<order_request, supply_composition, product_materials, supply,
                   buttons, current_order, fabric_shortage, hardware_shortage,
                   shortage_data, hardware_read, previous_pass, failures, drv>>

InitShared == InitZipper /\ InitMain

NextShared ==
    \/ \E order \in Orders : show_order_info(order)
    \/ calculate_cutting
    \/ \E o \in Orders : order_deleted(o)
    \/ \E o \in Orders : lines_deleted(o)

SpecShared == InitShared /\ [][NextShared]_vars

(***************************************************************************)
(* Store failures: a statement raises in execute_query or execute_insert   *)
(* (lines 53-56, 67-70); what was committed before it stays committed      *)
(***************************************************************************)
\* a read of show_order_info fails (lines 180, 207, 226, 235): every read comes
\* after current_order is set (line 170) and before hardware_shortage is reset
\* (line 237); the except of line 254 shows the message
show_order_info_fails(order) ==
    /\ failures < MaxFailures
    /\ failures' = failures + 1
    /\ order \in buttons
    /\ current_order' = order
    /\ last' = [handler |-> "show_order_info", order |-> order,
                outcome |-> "QueryFailure", pre |-> NoSnapshot, log |-> <<>>,
                left |-> <<>>, required |-> <<>>, dialog |-> "none"]
    /\ UNCHANGED <<order_request, supply_composition, product_materials,
                   order_composition, supply, buttons, fabric_shortage,
                   hardware_shortage, shortage_data, hardware_read, previous_pass,
                   drv>>

\* a read of calculate_cutting fails before the fabric shortage is set (lines
\* 271, 294, 351): nothing is written, the except of line 371 shows the message
calculate_cutting_read_fails ==
    /\ failures < MaxFailures
    /\ failures' = failures + 1
    /\ current_order /= 0
    /\ last' = [handler |-> "calculate_cutting", order |-> current_order,
                outcome |-> "QueryFailure", pre |-> Snapshot, log |-> <<>>,
                left |-> <<>>, required |-> <<>>, dialog |-> "none"]
    /\ UNCHANGED <<order_request, supply_composition, product_materials,
                   order_composition, supply, buttons, current_order,
                   fabric_shortage, hardware_shortage, shortage_data, hardware_read,
                   previous_pass, drv>>

\* a statement of check_and_prompt_supply_request or create_supply_requests
\* fails after k writes were committed: the k-th + 1 write, or a read issued
\* at that point (lines 472, 483, 493, 504, 545, 557). The exception leaves
\* check_and_prompt_supply_request for the except of line 371, or
\* create_supply_requests through its own except (line 574); no later
\* statement is issued. fabric_shortage and shortage_data were set before
\* (lines 355-359, 453-459).
calculate_cutting_write_fails ==
    /\ failures < MaxFailures
    /\ failures' = failures + 1
    /\ current_order /= 0
    /\ LET db == Db(order_request, supply_composition, product_materials, supply)
       IN  \E first \in FirstRowChoices(db, current_order),
              click \in {"create", "cancel"} :
           /\ ~CalcRaises(db, current_order, first)
           /\ \E tfr \in {total_fabric_required(db, current_order, first)} :
               /\ \A i \in 1..Len(tfr) : ~tfr[i].raise
               /\ \E fs \in {FabricShortage(db, current_order, tfr)} :
                  \E whole \in {check_and_prompt_supply_request(
                                    db, fs, hardware_shortage, current_order, click)} :
                  \E k \in 0..Len(whole.db.log) :
                     \E r \in {check_and_prompt_supply_request(
                                   [db EXCEPT !.fail_at = k], fs, hardware_shortage,
                                   current_order, click)} :
                         /\ k < Len(whole.db.log) \/ whole.outcome = "declined"
                         /\ Len(r.db.sc) <= MaxBatches
                         /\ fabric_shortage' = fs
                         /\ shortage_data' = r.sd
                         /\ order_request' = r.db.status
                         /\ supply_composition' = r.db.sc
                         /\ product_materials' = r.db.pm
                         /\ supply' = r.db.supply
                         /\ last' = [handler |-> "calculate_cutting",
                                     order |-> current_order,
                                     outcome |-> "QueryFailure", pre |-> Snapshot,
                                     log |-> r.db.log, left |-> <<>>,
                                     required |-> tfr, dialog |-> r.dialog]
    /\ UNCHANGED <<order_composition, buttons, current_order, hardware_shortage,
                   hardware_read, previous_pass, drv>>

\* the zipper scenario with one order that has a button: order 1 is 15 zippers
\* short, 20 are spare in two batches; it either has its panel of canvas or
\* lacks it while one panel is spare
InitFail ==
    /\ order_request = [o \in Orders |-> IF o = 1 THEN "Confirmed" ELSE "MaterialsOrdered"]
    /\ order_composition = <<Line(1, "A", 1, 1, 2), Line(2, "B", 1, 1, 1)>>
    /\ \E a \in 0..1 :
          /\ supply_composition = <<Batch(1, 2, 1, 1, 1 - a), Batch(2, NULL, NULL, 10, 8),
                                    Batch(2, NULL, NULL, 15, 12)>>
          /\ product_materials = <<Assignment(1, 1, a), Assignment(1, 2, 40),
                                   Assignment(2, 1, 0)>>
    /\ supply = 1

InitFailMain == InitFail /\ InitMain

NextFail ==
    \/ \E order \in Orders : show_order_info(order)
    \/ calculate_cutting
    \/ \E order \in Orders : show_order_info_fails(order)
    \/ calculate_cutting_read_fails
    \/ calculate_cutting_write_fails

SpecFail == InitFailMain /\ [][NextFail]_vars

(***************************************************************************)
(* The packer and its driver loop on their own: the inputs are drawn from  *)
(* the bounds, every step is one iteration of the while loop of lines      *)
(* 319-339                                                                  *)
(***************************************************************************)
Item(name, width, height, quantity) ==
    [name |-> name, width |-> width, height |-> height, quantity |-> quantity]

Items == [name : {"A", "B"}, width : 0..MaxDim, height : 0..MaxDim,
          quantity : 0..MaxPieces]

\* the store does not take part
InitStoreIdle ==
    /\ order_request = [o \in Orders |-> "Confirmed"]
    /\ supply_composition = <<>>
    /\ product_materials = <<>>
    /\ order_composition = <<>>
    /\ supply = 0
    /\ buttons = {}
    /\ current_order = 0
    /\ fabric_shortage = <<>>
    /\ hardware_shortage = <<>>
    /\ shortage_data = <<>>
    /\ hardware_read = [order |-> 0, sc |-> <<>>, pm |-> <<>>]
    /\ last = [handler |-> "init", order |-> 0, outcome |-> "", pre |-> NoSnapshot,
               log |-> <<>>, left |-> <<>>, required |-> <<>>, dialog |-> "none"]
    /\ previous_pass = NoPass
    /\ failures = 0

\* items_copy = [item.copy() for item in items]; fabric_required = 0 (lines 316-317);
\* calls counts the calls of pack_single_fabric (line 321), copy_before is
\* items_copy as it was when the last call was made
DriverStart(fabric_width, fabric_height, items) ==
    [pc |-> "loop", fabric_width |-> fabric_width, fabric_height |-> fabric_height,
     items |-> items, items_copy |-> items, fabric_required |-> 0, call |-> <<>>,
     placements |-> <<>>, used |-> <<>>, calls |-> 0, copy_before |-> items]

InitPackBounded ==
    \E w \in 0..MaxDim, h \in 0..MaxDim, first \in Items, second \in Items, n \in 1..2 :
        /\ first.name = "A"
        /\ drv = DriverStart(w, h, IF n = 1 THEN <<first>> ELSE <<first, second>>)
        /\ n = 1 => second = first

\* panel 300x200, A 100x50 x 10, B 80x40 x 5
InitPackScenario ==
    drv = DriverStart(300, 200, <<Item("A", 100, 50, 10), Item("B", 80, 40, 5)>>)

InitPack == (InitPackBounded \/ InitPackScenario) /\ InitStoreIdle

UnchangedMain ==
    UNCHANGED <<order_request, supply_composition, product_materials,
                order_composition, supply, buttons, current_order, fabric_shortage,
                hardware_shortage, shortage_data, hardware_read, last,
                previous_pass, failures>>

\* an iteration whose pack call places something (lines 320-336)
DriverPlace ==
    /\ drv.pc = "loop"
    /\ AnyLeft(drv.items_copy)
    /\ ~PackRaises(valid_items(drv.items_copy))
    /\ LET res == pack_single_fabric(drv.fabric_width, drv.fabric_height,
                                     valid_items(drv.items_copy))
       IN  /\ res.placements /= <<>>
           /\ drv' = [drv EXCEPT !.call = valid_items(drv.items_copy),
                                 !.placements = res.placements,
                                 !.used = res.used,
                                 !.items_copy = ApplyUsed(drv.items_copy, res.used),
                                 !.fabric_required = @ + 1,
                                 !.calls = @ + 1,
                                 !.copy_before = drv.items_copy]
    /\ UnchangedMain

\* an iteration whose pack call places nothing: break (lines 337-339)
DriverBreak ==
    /\ drv.pc = "loop"
    /\ AnyLeft(drv.items_copy)
    /\ ~PackRaises(valid_items(drv.items_copy))
    /\ LET res == pack_single_fabric(drv.fabric_width, drv.fabric_height,
                                     valid_items(drv.items_copy))
       IN  /\ res.placements = <<>>
           /\ drv' = [drv EXCEPT !.pc = "break",
                                 !.call = valid_items(drv.items_copy),
                                 !.placements = res.placements,
                                 !.used = res.used,
                                 !.calls = @ + 1,
                                 !.copy_before = drv.items_copy]
    /\ UnchangedMain

\* the pack call divides by a side of 0: ZeroDivisionError leaves the loop
DriverRaise ==
    /\ drv.pc = "loop"
    /\ AnyLeft(drv.items_copy)
    /\ PackRaises(valid_items(drv.items_copy))
    /\ drv' = [drv EXCEPT !.pc = "error", !.call = valid_items(drv.items_copy),
                          !.placements = <<>>, !.used = <<>>, !.calls = @ + 1,
                          !.copy_before = drv.items_copy]
    /\ UnchangedMain

\* the loop condition is false (line 319): total_fabric_required is set (line 340)
DriverExit ==
    /\ drv.pc = "loop"
    /\ ~AnyLeft(drv.items_copy)
    /\ drv' = [drv EXCEPT !.pc = "done"]
    /\ UnchangedMain

NextPack == DriverPlace \/ DriverBreak \/ DriverRaise \/ DriverExit

SpecPack == InitPack /\ [][NextPack]_vars

(***************************************************************************)
(* Properties                                                              *)
(***************************************************************************)
RECURSIVE SumFn(_)
\* the sum of the values of a function with a finite domain
SumFn(f) ==
    IF DOMAIN f = {} THEN 0
    ELSE LET x == CHOOSE x \in DOMAIN f : TRUE
         IN  f[x] + SumFn([y \in DOMAIN f \ {x} |-> f[y]])

\* the last handler was a calculation pass that reached
\* check_and_prompt_supply_request; the store is as that pass left it
Pass ==
    last.handler = "calculate_cutting" /\ last.outcome \notin {"error", "QueryFailure"}

\* batches of the materials named name in a supply_composition table
BatchIds(sc, name) == {b \in 1..Len(sc) : material[sc[b].material_id].name = name}

\* total remainder of a material before the pass
RemainderBefore(name) ==
    SumFn([b \in BatchIds(last.pre.sc, name) |-> last.pre.sc[b].remainder])

\* what the pass took from the batches of a material that existed before it
TakenFromRemainder(name) ==
    SumFn([b \in BatchIds(last.pre.sc, name) |->
              last.pre.sc[b].remainder - supply_composition[b].remainder])

\* assignments of an order on the materials named name in a product_materials table
AssignmentIds(pm, sc, order, name) ==
    {p \in 1..Len(pm) :
        /\ order_composition[pm[p].order_composition_id].order_id = order
        /\ material[sc[pm[p].supply_composition_id].material_id].name = name}

\* what the pass added to the assignments of its order on a material
AddedToAssignments(name) ==
    SumFn([p \in AssignmentIds(product_materials, supply_composition, last.order, name)
              |-> product_materials[p].quantity
                  - (IF p <= Len(last.pre.pm) THEN last.pre.pm[p].quantity ELSE 0)])

Covered(i) == RemainderBefore(shortage_data[i].material) >= shortage_data[i].shortage

AllCovered == \A i \in 1..Len(shortage_data) : Covered(i)

\* no remainder and no assignment quantity differs from before the pass
NoDrawDone ==
    /\ \A b \in 1..Len(last.pre.sc) :
          supply_composition[b].remainder = last.pre.sc[b].remainder
    /\ \A p \in 1..Len(last.pre.pm) :
          product_materials[p].quantity = last.pre.pm[p].quantity

\* C1: a pass whose merged shortage map is empty sets the status of the current
\* order to ReadyInWorkshop and changes no batch remainder and no assignment
\* quantity (and adds no batch and no assignment).
C1_EmptyMapReady ==
    (Pass /\ shortage_data = <<>>) =>
        /\ order_request[last.order] = "ReadyInWorkshop"
        /\ Len(supply_composition) = Len(last.pre.sc)
        /\ Len(product_materials) = Len(last.pre.pm)
        /\ NoDrawDone

C1_Witness ==
    /\ Pass /\ shortage_data = <<>>
    /\ last.pre.status[last.order] = "Confirmed"
    /\ order_request[last.order] = "ReadyInWorkshop"

\* C2: a pass whose shortage map is non-empty and whose every material has a
\* total remainder of at least its shortage ends with the status Cutting and
\* with needed = 0 for every material of the map.
C2_CoveredCutting ==
    (Pass /\ shortage_data /= <<>> /\ AllCovered) =>
        /\ order_request[last.order] = "Cutting"
        /\ Len(last.left) = Len(shortage_data)
        /\ \A i \in 1..Len(shortage_data) :
              /\ last.left[i].material = shortage_data[i].material
              /\ last.left[i].shortage = 0
        /\ last.log[Len(last.log)].op = "UPDATE order_request"

\* the scenario: 15 zippers short, 20 spare in two batches
C2_Witness ==
    /\ Pass /\ shortage_data = <<Entry("Zipper", 15)>>
    /\ RemainderBefore("Zipper") = 20
    /\ TakenFromRemainder("Zipper") = 15
    /\ order_request[last.order] = "Cutting"

SomeUncovered == \E i \in 1..Len(shortage_data) : ~Covered(i)

\* the position of the last write of the pass
LastWrite == Len(last.log)

\* C3: when the map is non-empty, some material's remainder is smaller than its
\* shortage and the user clicks "create", the status becomes MaterialsOrdered,
\* and that write is the last one, after a pending batch was inserted for every
\* entry of the map.
C3_ConfirmedOrdered ==
    (Pass /\ shortage_data /= <<>> /\ SomeUncovered /\ last.dialog = "create") =>
        /\ order_request[last.order] = "MaterialsOrdered"
        /\ last.log /= <<>>
        /\ last.log[LastWrite].op = "UPDATE order_request"
        /\ last.log[LastWrite].status = "MaterialsOrdered"
        /\ \A k \in 1..(LastWrite - 1) : last.log[k].op /= "UPDATE order_request"
        /\ \A i \in 1..Len(shortage_data) :
              \E k \in 1..(LastWrite - 1) :
                 /\ last.log[k].op = "INSERT supply_composition"
                 /\ last.log[k].amount = shortage_data[i].shortage
                 /\ material[supply_composition[last.log[k].id].material_id].name
                        = shortage_data[i].material

C3_Witness ==
    /\ Pass /\ Len(shortage_data) = 2 /\ SomeUncovered /\ last.dialog = "create"
    /\ order_request[last.order] = "MaterialsOrdered"
    /\ last.pre.status[last.order] = "Confirmed"

\* C4: when the map is non-empty, some material's remainder is smaller than its
\* shortage and the user clicks "cancel", the store is exactly as before the
\* pass: statuses, batches, assignments and intake records.
C4_DeclinedNoChange ==
    (Pass /\ shortage_data /= <<>> /\ SomeUncovered /\ last.dialog = "cancel") =>
        /\ order_request = last.pre.status
        /\ supply_composition = last.pre.sc
        /\ product_materials = last.pre.pm
        /\ supply = last.pre.supply
        /\ last.log = <<>>

C4_Witness ==
    /\ Pass /\ shortage_data /= <<>> /\ SomeUncovered /\ last.dialog = "cancel"
    /\ \E i \in 1..Len(shortage_data) : Covered(i)

\* C5: after a shortage was resolved from remainder, for every material of the
\* map the amount taken from its batches' remainders equals the amount added
\* to the order's assignments on that material, and both equal the shortage.
C5_RemainderConservation ==
    (Pass /\ shortage_data /= <<>> /\ AllCovered) =>
        \A i \in 1..Len(shortage_data) :
            /\ TakenFromRemainder(shortage_data[i].material) = shortage_data[i].shortage
            /\ AddedToAssignments(shortage_data[i].material) = shortage_data[i].shortage

\* two materials resolved in one pass, one of them from two batches
C5_Witness ==
    /\ Pass /\ Len(shortage_data) = 2 /\ AllCovered
    /\ \E i \in 1..Len(shortage_data) : shortage_data[i].shortage >= 2

\* the quantities the shortage map was computed from: the panels the packer
\* requires and the quantity assigned, both read by the pass; the hardware
\* required and available, read by the last show_order_info that completed
PanelsRequired(name) ==
    SumFn([k \in {j \in 1..Len(last.required) : last.required[j].material = name}
              |-> last.required[k].required])

AssignedRead(name) ==
    SumFn([p \in AssignmentIds(last.pre.pm, last.pre.sc, last.order, name)
              |-> last.pre.pm[p].quantity])

HardwareRequiredRead(name) ==
    IF hardware_read.order = 0 THEN 0
    ELSE SumFn([p \in AssignmentIds(hardware_read.pm, hardware_read.sc,
                                    hardware_read.order, name)
                  |-> hardware_read.pm[p].quantity])

HardwareAvailableRead(name) ==
    SumFn([b \in BatchIds(hardware_read.sc, name) |-> hardware_read.sc[b].quantity])

IsHardwareName(name) == \E m \in MaterialIds : material[m].name = name /\ IsHardware(m)

Uncovered(name) ==
    IF IsHardwareName(name)
    THEN HardwareRequiredRead(name) - HardwareAvailableRead(name)
    ELSE PanelsRequired(name) - AssignedRead(name)

\* the map of a pass is exact for the quantities it was computed from: it holds
\* a material exactly when the quantity read as required exceeds the quantity
\* read as covered, with that difference, and no entry is zero or negative
ShortageMapExactAsRead ==
    Pass =>
        /\ \A i \in 1..Len(shortage_data) : shortage_data[i].shortage > 0
        /\ \A i, j \in 1..Len(shortage_data) :
              shortage_data[i].material = shortage_data[j].material => i = j
        /\ Keys(shortage_data) \subseteq MaterialNames
        /\ \A name \in MaterialNames :
              IF Uncovered(name) > 0
              THEN \E i \in 1..Len(shortage_data) :
                      shortage_data[i] = Entry(name, Uncovered(name))
              ELSE name \notin Keys(shortage_data)

\* the scenario: 40 zippers required, 25 available, the single entry is 15
ZipperEntryReached ==
    /\ Pass /\ last.order = 1
    /\ HardwareRequiredRead("Zipper") = 40
    /\ HardwareAvailableRead("Zipper") = 25
    /\ shortage_data = <<Entry("Zipper", 15)>>

\* required and available hardware of the current order in the store the pass
\* started from
HardwareRequiredAtPass(name) ==
    SumFn([p \in AssignmentIds(last.pre.pm, last.pre.sc, last.order, name)
              |-> last.pre.pm[p].quantity])

HardwareAvailableAtPass(name) ==
    SumFn([b \in BatchIds(last.pre.sc, name) |-> last.pre.sc[b].quantity])

UncoveredAtPass(name) ==
    IF IsHardwareName(name)
    THEN HardwareRequiredAtPass(name) - HardwareAvailableAtPass(name)
    ELSE PanelsRequired(name) - AssignedRead(name)

\* C6: the shortage map handed to the resolver holds a material exactly when
\* its required quantity exceeds what is covered (fabric: panels required by
\* the packer against the quantity assigned to the order, hardware: total
\* required by the order against total available in inventory), the entry is
\* that positive difference, and no entry is zero or negative.
C6_ShortageMapAtHandOff ==
    Pass =>
        /\ \A i \in 1..Len(shortage_data) : shortage_data[i].shortage > 0
        /\ \A name \in MaterialNames :
              IF UncoveredAtPass(name) > 0
              THEN \E i \in 1..Len(shortage_data) :
                      shortage_data[i] = Entry(name, UncoveredAtPass(name))
              ELSE name \notin Keys(shortage_data)

\* a placement comes from an item of the call: same name, same sides
FromItem(p, it) ==
    /\ p.name = it.name
    /\ \/ p.width = it.width /\ p.height = it.height
       \/ p.width = it.height /\ p.height = it.width

\* C7: the consumed-panel count is never negative, and every placement a pack
\* call returns has a count of at most the quantity requested for that piece
\* in the input of the call.
C7_CountsWithinRequest ==
    /\ drv.fabric_required >= 0
    /\ \A k \in 1..Len(drv.placements) :
          \E i \in 1..Len(drv.call) :
             /\ FromItem(drv.placements[k], drv.call[i])
             /\ drv.placements[k].count >= 1
             /\ drv.placements[k].count <= drv.call[i].quantity

\* a call that placed fewer than requested of one piece and all of another
C7_Witness ==
    /\ Len(drv.placements) = 2
    /\ \E k \in 1..2 : \A i \in 1..Len(drv.call) :
          FromItem(drv.placements[k], drv.call[i])
              => drv.placements[k].count < drv.call[i].quantity
    /\ drv.fabric_required >= 1

\* columns x rows of one piece on the empty panel, under a rotation
Capacity(it, rot) ==
    LET w == IF rot THEN it.height ELSE it.width
        h == IF rot THEN it.width ELSE it.height
    IN  (drv.fabric_width \div w) * (drv.fabric_height \div h)

\* what the claim says is placed of an item: as a placement record
Expected(it, rot) ==
    [x |-> 0, y |-> 0,
     width |-> IF rot THEN it.height ELSE it.width,
     height |-> IF rot THEN it.width ELSE it.height,
     count |-> Min(Capacity(it, rot), it.quantity), name |-> it.name]

\* the placements are, piece by piece, those of the rotation
MatchesRotation(rot) ==
    /\ Len(drv.placements)
          = Cardinality({i \in 1..Len(drv.call) : Expected(drv.call[i], rot).count > 0})
    /\ \A i \in 1..Len(drv.call) :
          Expected(drv.call[i], rot).count > 0 =>
              Cardinality({k \in 1..Len(drv.placements) :
                              drv.placements[k] = Expected(drv.call[i], rot)})
              = Cardinality({j \in 1..Len(drv.call) :
                              Expected(drv.call[j], rot) = Expected(drv.call[i], rot)})

ScenarioInput ==
    /\ drv.fabric_width = 300 /\ drv.fabric_height = 200
    /\ drv.items = <<Item("A", 100, 50, 10), Item("B", 80, 40, 5)>>

\* C8: a pack call places of every piece min(floor(W/w) x floor(H/h), quantity)
\* for the orientation it returns, each piece against the whole panel; for the
\* panel 300x200 with A 100x50 x 10 and B 80x40 x 5 one call places 10 A and
\* 5 B and the driver ends with required = 1.
C8_StandaloneCapacity ==
    /\ (drv.pc \in {"loop", "break", "done"} /\ drv.call /= <<>>) =>
          \E rot \in BOOLEAN : MatchesRotation(rot)
    /\ (ScenarioInput /\ drv.call /= <<>>) =>
          /\ drv.fabric_required = 1
          /\ Len(drv.placements) = 2
          /\ \E k \in 1..2 : drv.placements[k].name = "A" /\ drv.placements[k].count = 10
          /\ \E k \in 1..2 : drv.placements[k].name = "B" /\ drv.placements[k].count = 5
    /\ (ScenarioInput /\ drv.pc /= "loop") => drv.pc = "done" /\ drv.fabric_required = 1

C8_Witness == ScenarioInput /\ drv.pc = "done" /\ drv.fabric_required = 1

\* C9: if any material of the map has a total remainder smaller than its
\* shortage, no remainder and no assignment quantity is changed for any
\* material, the covered ones included: the pass issues no UPDATE of a batch or
\* an assignment, and an assignment it inserts is a placeholder of quantity 0
\* on a batch created by the same pass.
C9_AllOrNothing ==
    (Pass /\ shortage_data /= <<>> /\ SomeUncovered) =>
        /\ NoDrawDone
        /\ \A k \in 1..Len(last.log) :
              last.log[k].op \notin {"UPDATE product_materials",
                                     "UPDATE supply_composition"}
        /\ \A p \in (Len(last.pre.pm) + 1)..Len(product_materials) :
              /\ product_materials[p].quantity = 0
              /\ product_materials[p].supply_composition_id > Len(last.pre.sc)

\* the first material of the map is covered, the second is not
C9_Witness ==
    /\ Pass /\ Len(shortage_data) = 2
    /\ Covered(1) /\ ~Covered(2)
    /\ RemainderBefore(shortage_data[1].material) > 0

\* C10: every stock batch has 0 <= remainder <= quantity.
C10_RemainderWithinQuantity ==
    \A b \in 1..Len(supply_composition) :
        /\ 0 <= supply_composition[b].remainder
        /\ supply_composition[b].remainder <= supply_composition[b].quantity

\* a draw from two batches in a store that holds a pending batch
C10_Witness ==
    /\ Pass
    /\ Cardinality({b \in 1..Len(last.pre.sc) :
           supply_composition[b].remainder < last.pre.sc[b].remainder}) >= 2
    /\ \E b \in 1..Len(supply_composition) :
           supply_composition[b].status = "AwaitingConfirmation"

\* the step is a calculation pass that produced a map, for the same order and
\* from the same store as the previous pass that produced one
SamePassAgain ==
    /\ last'.handler = "calculate_cutting" /\ last'.outcome /= "error"
    /\ previous_pass.order = last'.order
    /\ previous_pass.pre = last'.pre

\* C11: running the Aggregator, Packer and Reconciler sequence twice for the
\* same order on an unchanged store yields identical panel counts per material
\* and identical shortage maps.
C11_SameStoreSameMap ==
    [][SamePassAgain =>
          /\ last'.required = previous_pass.required
          /\ shortage_data' = previous_pass.sd]_vars

\* the panel counts alone are the same on the same store
C11_SameStoreSamePanels ==
    [][SamePassAgain => last'.required = previous_pass.required]_vars

\* the driver loop of a material stopped early: pieces were left unplaced
StoppedEarly(k) == ~last.required[k].raise /\ last.required[k].unmet > 0

\* C12: when the driver loop stops early because a pack call returns no
\* placement while some piece still has quantity > 0, the unmet quantity
\* feeds into the shortage map: the map of that pass has an entry for the
\* material and the pass does not declare the order ready.
C12_UnplaceableSurfaced ==
    Pass =>
        \A k \in 1..Len(last.required) :
            StoppedEarly(k) =>
                /\ last.required[k].material \in Keys(shortage_data)
                /\ order_request[last.order] /= "ReadyInWorkshop"

\* batches the pass created for the materials named name
CreatedBatches(name) ==
    {b \in (Len(last.pre.sc) + 1)..Len(supply_composition) :
        material[supply_composition[b].material_id].name = name}

\* assignments the pass created on batch b
CreatedAssignments(b) ==
    {p \in (Len(last.pre.pm) + 1)..Len(product_materials) :
        product_materials[p].supply_composition_id = b}

\* C13: the Supply Request Generator creates a supply request only for the
\* entries left uncovered: for each of them one intake record, one pending batch
\* (quantity = shortage, AwaitingConfirmation, remainder 0) and one placeholder
\* assignment of quantity 0 of the order on that batch; it creates nothing for a
\* covered entry and leaves the quantity of every existing assignment unchanged.
C13_RequestsForUncovered ==
    (Pass /\ last.outcome = "ordered") =>
        /\ \A i \in 1..Len(shortage_data) :
              LET created == CreatedBatches(shortage_data[i].material)
              IN  IF Covered(i) THEN created = {}
                  ELSE /\ Cardinality(created) = 1
                       /\ \A b \in created :
                             /\ supply_composition[b].quantity = shortage_data[i].shortage
                             /\ supply_composition[b].status = "AwaitingConfirmation"
                             /\ supply_composition[b].remainder = 0
                             /\ Cardinality(CreatedAssignments(b)) = 1
                             /\ \A p \in CreatedAssignments(b) :
                                   /\ product_materials[p].quantity = 0
                                   /\ PmOrder([pm |-> product_materials], p) = last.order
        /\ supply - last.pre.supply
              = Cardinality({i \in 1..Len(shortage_data) : ~Covered(i)})
        /\ \A p \in 1..Len(last.pre.pm) :
              product_materials[p].quantity = last.pre.pm[p].quantity

\* what the generator does for every entry of the map it is given, covered or
\* not: one intake record, one pending batch and one placeholder per entry
RequestsForEveryEntry ==
    (Pass /\ last.outcome = "ordered") =>
        /\ \A i \in 1..Len(shortage_data) :
              LET created == CreatedBatches(shortage_data[i].material)
              IN  /\ Cardinality(created) = 1
                  /\ \A b \in created :
                        /\ supply_composition[b].quantity = shortage_data[i].shortage
                        /\ supply_composition[b].status = "AwaitingConfirmation"
                        /\ supply_composition[b].remainder = 0
                        /\ Cardinality(CreatedAssignments(b)) = 1
                        /\ \A p \in CreatedAssignments(b) :
                              /\ product_materials[p].quantity = 0
                              /\ PmOrder([pm |-> product_materials], p) = last.order
        /\ supply - last.pre.supply = Len(shortage_data)
        /\ \A p \in 1..Len(last.pre.pm) :
              product_materials[p].quantity = last.pre.pm[p].quantity

\* the status the resolver writes for a map and a click, as the four transitions
\* are listed: "" when it writes none
ListedStatus ==
    IF shortage_data = <<>> THEN "ReadyInWorkshop"
    ELSE IF AllCovered THEN "Cutting"
    ELSE IF last.dialog = "create" THEN "MaterialsOrdered"
    ELSE ""

\* the status writes of the last pass
StatusWrites == SelectSeq(last.log, LAMBDA w : w.op = "UPDATE order_request")

\* every status write is one of the listed transitions, under its condition
StatusWritesAsListed ==
    /\ last.handler = "calculate_cutting" =>
          \A o \in Orders \ {last.order} : order_request[o] = last.pre.status[o]
    /\ (last.handler = "calculate_cutting" /\ last.outcome = "error") =>
          order_request = last.pre.status
    /\ Pass =>
          IF ListedStatus = ""
          THEN StatusWrites = <<>> /\ order_request = last.pre.status
          ELSE /\ Len(StatusWrites) = 1
               /\ StatusWrites[1].id = last.order
               /\ StatusWrites[1].status = ListedStatus
               /\ order_request[last.order] = ListedStatus

\* once an order is ReadyInWorkshop no step changes its status
ReadyIsTerminal ==
    [][\A o \in Orders :
          order_request[o] = "ReadyInWorkshop" => order_request'[o] = "ReadyInWorkshop"]_vars

\* C14: every status write of the core is one of the listed transitions
\* (ReadyInWorkshop for an empty map, Cutting for a covered one, MaterialsOrdered
\* for an uncovered one the user confirms), under exactly that condition, and
\* ReadyInWorkshop is terminal: once an order is ReadyInWorkshop no later
\* operation of the core changes its status.
C14_ListedTransitionsReadyTerminal ==
    [][/\ StatusWritesAsListed'
       /\ \A o \in Orders :
             order_request[o] = "ReadyInWorkshop"
                 => order_request'[o] = "ReadyInWorkshop"]_vars

\* the fabric entries of the pass: panels required by the packer against the
\* quantity assigned in the store the pass started from
FabricReadAtPass ==
    /\ \A i \in 1..Len(fabric_shortage) :
          fabric_shortage[i].shortage
              = PanelsRequired(fabric_shortage[i].material)
                    - AssignedRead(fabric_shortage[i].material)
    /\ \A k \in 1..Len(last.required) :
          PanelsRequired(last.required[k].material)
                  > AssignedRead(last.required[k].material)
              => last.required[k].material \in Keys(fabric_shortage)

\* the hardware quantities behind the map are those of the store the pass
\* started from, for the order of the pass
HardwareReadAtPass ==
    /\ hardware_read.order = last.order
    /\ \A name \in MaterialNames :
          IsHardwareName(name) =>
              /\ HardwareRequiredRead(name) = HardwareRequiredAtPass(name)
              /\ HardwareAvailableRead(name) = HardwareAvailableAtPass(name)

\* C15: every calculation pass decides on quantities read from the store at the
\* start of that pass: the required, assigned and available quantities behind
\* the fabric and the hardware entries of the map are those of the store as the
\* pass finds it, never values kept from an earlier call.
C15_ReadAtPassStart == Pass => (FabricReadAtPass /\ HardwareReadAtPass)

\* the fabric part alone is read by every pass
C15_FabricReadAtPassStart == Pass => FabricReadAtPass

\* the order of the last pass had no row when the pass started
MissingOrder == last.pre.status[last.order] = NoRow

\* C16: when the order id does not exist the Material Demand Aggregator fails
\* with a LookupError that reaches the caller, and no order status and no stock
\* or assignment row is written.
C16_MissingOrderFails ==
    (last.handler = "calculate_cutting" /\ MissingOrder) =>
        /\ last.outcome = "LookupError"
        /\ order_request = last.pre.status
        /\ supply_composition = last.pre.sc
        /\ product_materials = last.pre.pm
        /\ supply = last.pre.supply

\* the remainder writes of the last pass on the batches of a material, in the
\* order they were issued
DrawWrites(name) ==
    SelectSeq(last.log, LAMBDA w :
        /\ w.op = "UPDATE supply_composition"
        /\ material[last.pre.sc[w.id].material_id].name = name)

\* what was still needed of a shortage before the k-th write of ws
StillNeeded(ws, shortage, k) ==
    shortage - SumSeq([j \in 1..(k - 1) |-> ws[j].amount])

\* C17: on the resolved-from-remainder path the batches of a material are drawn
\* in ascending id order, each contributing min(remainder, still needed): a
\* batch is drawn from only when every batch of the material with a smaller id
\* and a positive remainder has been drained to 0, and no batch is touched once
\* the shortage is covered.
C17_AscendingDraw ==
    (Pass /\ last.outcome = "cutting") =>
        \A i \in 1..Len(shortage_data) :
            LET name == shortage_data[i].material
                ws == DrawWrites(name)
            IN  /\ \A k \in 1..Len(ws) :
                      /\ k > 1 => ws[k - 1].id < ws[k].id
                      /\ StillNeeded(ws, shortage_data[i].shortage, k) > 0
                      /\ ws[k].amount
                            = Min(last.pre.sc[ws[k].id].remainder,
                                  StillNeeded(ws, shortage_data[i].shortage, k))
                      /\ supply_composition[ws[k].id].remainder
                            = last.pre.sc[ws[k].id].remainder - ws[k].amount
                      /\ \A b \in BatchIds(last.pre.sc, name) :
                            (b < ws[k].id /\ last.pre.sc[b].remainder > 0)
                                => supply_composition[b].remainder = 0
                /\ \A b \in BatchIds(last.pre.sc, name) :
                      (\A k \in 1..Len(ws) : ws[k].id /= b)
                          => supply_composition[b].remainder = last.pre.sc[b].remainder

\* 15 zippers from the remainders 8 and 12: the first batch is drained, the
\* second gives 7 and keeps 5
C17_Witness ==
    /\ Pass /\ last.outcome = "cutting"
    /\ shortage_data = <<Entry("Zipper", 15)>>
    /\ Len(DrawWrites("Zipper")) = 2
    /\ DrawWrites("Zipper")[1].amount = 8
    /\ DrawWrites("Zipper")[2].amount = 7
    /\ supply_composition[3].remainder = 5

\* what the pass took from batch b
TakenFromBatch(b) == last.pre.sc[b].remainder - supply_composition[b].remainder

\* what the pass added to the assignments that bind its order to batch b
AddedOnBatch(b) ==
    SumFn([p \in {q \in 1..Len(product_materials) :
                     /\ product_materials[q].supply_composition_id = b
                     /\ PmOrder([pm |-> product_materials], q) = last.order}
              |-> product_materials[p].quantity
                  - (IF p <= Len(last.pre.pm) THEN last.pre.pm[p].quantity ELSE 0)])

\* C18: every amount the resolver takes from a batch b is recorded on an
\* assignment that binds the order to that same batch b (an existing one is
\* increased or a new one is created); no amount taken from b is added to an
\* assignment bound to a different batch.
C18_RecordedOnSameBatch ==
    (Pass /\ last.outcome = "cutting") =>
        \A b \in 1..Len(last.pre.sc) : AddedOnBatch(b) = TakenFromBatch(b)

\* the area an orientation covers when every piece of the call is placed
\* against the whole panel with the quantity the call was given
AreaOf(rot) ==
    SumSeq([i \in 1..Len(drv.call) |->
        Expected(drv.call[i], rot).width * Expected(drv.call[i], rot).height
            * Expected(drv.call[i], rot).count])

\* no piece of the call fits the panel in either orientation
NothingFits ==
    \A i \in 1..Len(drv.call) :
        Capacity(drv.call[i], FALSE) = 0 /\ Capacity(drv.call[i], TRUE) = 0

\* a pack call has returned
Returned == drv.call /= <<>> /\ drv.pc \in {"loop", "break", "done"}

\* C19: pack_single_fabric evaluates the unrotated and the rotated orientation
\* independently, each from the quantities of its input, and returns the
\* placements of the orientation with the larger total covered area; on equal
\* areas it returns the unrotated one, and it returns no placement exactly when
\* no piece fits in either orientation.
C19_LargerAreaOrientation ==
    Returned =>
        /\ AreaOf(TRUE) > AreaOf(FALSE) =>
              MatchesRotation(TRUE) /\ total_area(drv.placements) = AreaOf(TRUE)
        /\ AreaOf(TRUE) <= AreaOf(FALSE) =>
              MatchesRotation(FALSE) /\ total_area(drv.placements) = AreaOf(FALSE)
        /\ drv.placements = <<>> <=> NothingFits

\* a call with two pieces that returned the rotated orientation, which covers
\* more than the unrotated one, itself not empty
C19_Witness ==
    /\ Returned /\ Len(drv.call) = 2
    /\ AreaOf(TRUE) > AreaOf(FALSE) /\ AreaOf(FALSE) > 0
    /\ MatchesRotation(TRUE) /\ ~MatchesRotation(FALSE)

\* the total quantity a list of items still asks for
TotalLeft(items) == SumSeq([i \in 1..Len(items) |-> items[i].quantity])

\* the calls of pack_single_fabric that returned a non-empty placement: every
\* call but the one that ended the loop early
PlacedCalls == drv.calls - (IF drv.pc \in {"break", "error"} THEN 1 ELSE 0)

\* C20: the driver loop terminates: each iteration that gets a non-empty
\* placement leaves a total remaining quantity strictly below the one its call
\* was given, no quantity goes below 0, so the panels counted never exceed the
\* quantity asked for; the loop ends either with every quantity at 0 or, early,
\* at the first call that returns no placement; the panel counter equals the
\* number of calls that returned a non-empty placement.
C20_DriverTerminates ==
    /\ \A i \in 1..Len(drv.items_copy) : drv.items_copy[i].quantity >= 0
    /\ drv.fabric_required + TotalLeft(drv.items_copy) <= TotalLeft(drv.items)
    /\ drv.fabric_required = PlacedCalls
    /\ drv.placements /= <<>> =>
          /\ TotalLeft(drv.items_copy) < TotalLeft(drv.call)
          /\ drv.pc \in {"loop", "done"}
    /\ drv.pc = "done" => TotalLeft(drv.items_copy) = 0
    /\ drv.pc = "break" =>
          /\ drv.placements = <<>>
          /\ AnyLeft(drv.items_copy)
          /\ drv.call = valid_items(drv.items_copy)
    /\ drv.pc = "error" =>
          \E i \in 1..Len(drv.items) :
              drv.items[i].width = 0 \/ drv.items[i].height = 0

\* one piece type that needed several panels: the loop ended with nothing left
C20_Witness ==
    /\ drv.pc = "done" /\ Len(drv.items) = 1 /\ drv.fabric_required >= 2
    /\ TotalLeft(drv.items_copy) = 0


\* the order of the last pass had no line the generator could attach a
\* placeholder to
NoLineToAttach == FirstOc(last.order) = <<>>

\* batches and assignments the pass created
NewBatches == (Len(last.pre.sc) + 1)..Len(supply_composition)
NewAssignments == (Len(last.pre.pm) + 1)..Len(product_materials)

\* C21: in the Supply Request Generator a material for which no
\* order-composition row exists to attach the placeholder to is skipped: no
\* intake record and no pending batch is created for it, while the materials
\* that do have one are processed and the order still moves to
\* MaterialsOrdered.
C21_NoLineMaterialSkipped ==
    (Pass /\ last.outcome = "ordered" /\ NoLineToAttach /\ ~MissingOrder) =>
        /\ supply = last.pre.supply
        /\ NewBatches = {}
        /\ NewAssignments = {}
        /\ order_request[last.order] = "MaterialsOrdered"

\* what the generator does when the order has no line: the intake record and
\* the pending batch are created for every entry, only the placeholder is left
\* out, and the status is written
NoLinePlaceholderOnlySkipped ==
    (Pass /\ last.outcome = "ordered" /\ NoLineToAttach /\ ~MissingOrder) =>
        /\ supply - last.pre.supply = Len(shortage_data)
        /\ Cardinality(NewBatches) = Len(shortage_data)
        /\ NewAssignments = {}
        /\ order_request[last.order] = "MaterialsOrdered"


\* the last handler was a calculation pass in which a statement failed
Failed == last.handler = "calculate_cutting" /\ last.outcome = "QueryFailure"

\* the store a pass like the last one leaves when the statement issued after
\* k committed writes fails
TornAt(k) ==
    check_and_prompt_supply_request(
        [Db(last.pre.status, last.pre.sc, last.pre.pm, last.pre.supply)
            EXCEPT !.fail_at = k],
        fabric_shortage, hardware_shortage, last.order, last.dialog).db

\* what was taken from the remainders of a material, and added to the
\* assignments of the order on it, in a store reached from the one before the pass
TakenIn(db, name) ==
    SumFn([b \in BatchIds(last.pre.sc, name) |->
              last.pre.sc[b].remainder - db.sc[b].remainder])

AddedIn(db, name) ==
    SumFn([p \in AssignmentIds(db.pm, db.sc, last.order, name)
              |-> db.pm[p].quantity
                  - (IF p <= Len(last.pre.pm) THEN last.pre.pm[p].quantity ELSE 0)])

FailurePoints == 0..(Len(last.log) - 1)

SomeFailureTearsAssignment ==
    (Pass /\ last.outcome = "cutting") =>
        \E k \in FailurePoints, name \in MaterialNames :
            AddedIn(TornAt(k), name) > TakenIn(TornAt(k), name)

BeforeLastWrite == SubSeq(last.log, 1, Len(last.log) - 1)

\* C23: when a store read or write fails during a pass the order's status is
\* not advanced: a failed pass leaves every status as it was and has issued no
\* status write; Cutting is written only as the last statement, after every
\* draw of every material has completed, and MaterialsOrdered only as the last
\* statement, after the inserts of every entry of the map.
C23_FailureKeepsStatus ==
    /\ Failed => (order_request = last.pre.status /\ StatusWrites = <<>>)
    /\ (Pass /\ last.outcome = "cutting") =>
          /\ last.log[Len(last.log)].op = "UPDATE order_request"
          /\ last.log[Len(last.log)].status = "Cutting"
          /\ Len(StatusWrites) = 1
          /\ \A i \in 1..Len(shortage_data) :
                SumSeq([k \in 1..Len(DrawWrites(shortage_data[i].material)) |->
                           DrawWrites(shortage_data[i].material)[k].amount])
                    = shortage_data[i].shortage
    /\ (Pass /\ last.outcome = "ordered") =>
          /\ last.log[Len(last.log)].op = "UPDATE order_request"
          /\ last.log[Len(last.log)].status = "MaterialsOrdered"
          /\ Len(StatusWrites) = 1
          /\ Len(SelectSeq(BeforeLastWrite,
                           LAMBDA w : w.op = "INSERT supply_composition"))
                = Len(shortage_data)
          /\ Len(SelectSeq(BeforeLastWrite,
                           LAMBDA w : w.op = "INSERT product_materials"))
                = Len(shortage_data)

\* a supply request was being created when a statement failed: the intake
\* record and the pending batch are committed, the order was Cutting and still is
C23_Witness ==
    /\ Failed /\ last.dialog = "create"
    /\ NewBatches /= {}
    /\ last.pre.status[last.order] = "Cutting"
    /\ order_request[last.order] = "Cutting"


\* the step is a calculation pass that produced a map, for the order of the
\* previous such pass, which drew its whole shortage from remainder and set
\* Cutting; the store is as that pass left it
PassAfterResolved ==
    /\ previous_pass.outcome = "cutting"
    /\ previous_pass.post = Snapshot
    /\ last'.handler = "calculate_cutting"
    /\ last'.outcome \notin {"error", "QueryFailure"}
    /\ last'.order = previous_pass.order

\* the pass finds nothing short, draws nothing and sets ReadyInWorkshop
Converged ==
    /\ shortage_data' = <<>>
    /\ supply_composition' = supply_composition
    /\ product_materials' = product_materials
    /\ order_request'[current_order] = "ReadyInWorkshop"

\* C24: if a pass ends by drawing the whole shortage from remainder and setting
\* Cutting, the next pass on the same order with no other change to the store,
\* whether or not the order is selected again in between, finds an empty
\* shortage map, draws nothing further from any batch and sets
\* ReadyInWorkshop, for fabric and for hardware shortages alike.
C24_ConvergesAfterResolved == [][PassAfterResolved => Converged]_vars

\* the part that holds: the fabric entries converge, so the next pass does when
\* no hardware shortage is cached
FabricConvergesAfterResolved ==
    [][(PassAfterResolved /\ hardware_shortage = <<>>) => Converged]_vars


\* the orientation the last pack call returned: the rotated one when it covers
\* strictly more
ReturnedRotation == AreaOf(TRUE) > AreaOf(FALSE)

\* what the last pack call placed of a row of items_copy
PlacedOfRow(it) ==
    IF it.quantity > 0 THEN Expected(it, ReturnedRotation).count ELSE 0

\* a row that fits the panel in neither orientation
FitsNoPanel(it) ==
    /\ it.width > 0 /\ it.height > 0
    /\ Capacity(it, FALSE) = 0 /\ Capacity(it, TRUE) = 0

\* the rows of the material are told apart by name or by size
RowsDiffer ==
    \A i, j \in 1..Len(drv.items) :
        (i /= j /\ drv.items[i].name = drv.items[j].name) =>
            <<drv.items[i].width, drv.items[i].height>>
                /= <<drv.items[j].width, drv.items[j].height>>

\* every row lost exactly what the last call placed of it, no row is below 0,
\* and a row that fits no panel has the quantity it was requested with
RowsAccounted ==
    /\ (Returned /\ drv.placements /= <<>>) =>
          \A i \in 1..Len(drv.items_copy) :
              drv.items_copy[i].quantity
                  = drv.copy_before[i].quantity - PlacedOfRow(drv.copy_before[i])
    /\ \A i \in 1..Len(drv.items_copy) :
          /\ drv.items_copy[i].quantity >= 0
          /\ FitsNoPanel(drv.items[i]) =>
                drv.items_copy[i].quantity = drv.items[i].quantity

\* C25: per-row accounting in the driver loop: the remaining quantity of each
\* piece-demand row is decremented by exactly the counts the packer placed for
\* that row, so the total placed for a row never exceeds its requested
\* quantity and a row that fits on no panel keeps its quantity; this holds
\* also when two rows of the material carry the same product name with
\* different dimensions.
C25_PerRowAccounting == RowsDiffer => RowsAccounted

\* the accounting is per row when no two rows share a name
RowsAccountedByName ==
    (\A i, j \in 1..Len(drv.items) :
        drv.items[i].name = drv.items[j].name => i = j) => RowsAccounted


\* C26: the shortage map used in a pass contains only materials and amounts
\* computed for the current order: after any sequence of selections (including
\* one whose data load fails after the current order was switched) and passes,
\* every fabric entry is the one this pass computed for its order and every
\* hardware entry was computed by a selection of that same order.
C26_MapOfCurrentOrder ==
    Pass =>
        \A i \in 1..Len(shortage_data) :
            IF IsHardwareName(shortage_data[i].material)
            THEN hardware_read.order = last.order
            ELSE shortage_data[i].shortage
                     = PanelsRequired(shortage_data[i].material)
                           - AssignedRead(shortage_data[i].material)

\* the fabric entries alone are always those of the order of the pass
FabricEntriesOfCurrentOrder ==
    Pass =>
        \A i \in 1..Len(shortage_data) :
            ~IsHardwareName(shortage_data[i].material) =>
                shortage_data[i].shortage
                    = PanelsRequired(shortage_data[i].material)
                          - AssignedRead(shortage_data[i].material)


\* the step is a calculation pass that produced a map, for the order of the
\* previous such pass, which created the supply requests; the order was
\* selected again since and the store is as that pass left it: no intake was
\* confirmed
PassAfterRequest ==
    /\ previous_pass.outcome = "ordered"
    /\ previous_pass.post = Snapshot
    /\ last.handler = "show_order_info"
    /\ last.order = previous_pass.order
    /\ last'.handler = "calculate_cutting"
    /\ last'.outcome \notin {"error", "QueryFailure"}
    /\ last'.order = previous_pass.order

\* the map still has every entry the requests were created for
SameShortageReported ==
    \A i \in 1..Len(previous_pass.sd) :
        \E j \in 1..Len(shortage_data') : shortage_data'[j] = previous_pass.sd[i]

\* C27: a pending batch created by the Supply Request Generator
\* (AwaitingConfirmation, remainder 0) covers nothing while it is pending: it
\* never counts as available or assigned quantity, so a later selection and
\* pass on the same order, with no intake confirmed, still reports the same
\* shortage for that material and cannot move the order from MaterialsOrdered
\* to ReadyInWorkshop or Cutting.
C27_PendingCoversNothing ==
    [][PassAfterRequest =>
          /\ SameShortageReported
          /\ order_request'[current_order] \notin {"ReadyInWorkshop", "Cutting"}]_vars

\* a pending batch is never drawn from: its remainder is 0 and stays 0
PendingNeverDrawn ==
    \A b \in 1..Len(supply_composition) :
        supply_composition[b].status = "AwaitingConfirmation" =>
            supply_composition[b].remainder = 0

====
